---- MODULE Spec2Model ----
(***************************************************************************)
(* ReCal (src/app/page.tsx): the reminder page.  A relative offset token   *)
(* ("3weeks") is resolved to start/end instants, rendered as a calendar    *)
(* document, and the picker / recent-selection state is kept in React      *)
(* state and in localStorage.                                              *)
(*                                                                         *)
(* Strings of the program are sequences of one-character strings, so that  *)
(* matching, parsing, formatting and joining are computed character by     *)
(* character.  An instant is [day, ms]: whole days since 1970-01-01 UTC    *)
(* and milliseconds within that UTC day (a JavaScript Date's time value,   *)
(* split so that every intermediate number stays small).                   *)
(***************************************************************************)
EXTENDS Integers, Sequences, FiniteSets, TLC

\* an absent value (null) is the empty tuple, a present value x is <<x>>
None == <<>>
Some(x) == <<x>>

CR == "\r"
LF == "\n"
BACKSLASH == "\\"

Digits == <<"0", "1", "2", "3", "4", "5", "6", "7", "8", "9">>
DigitChars == {Digits[i] : i \in 1..10}
LowerChars == {"a", "b", "c", "d", "e", "f", "g", "h", "i", "j", "k", "l", "m",
               "n", "o", "p", "q", "r", "s", "t", "u", "v", "w", "x", "y", "z"}
UpperChars == {"A", "B", "C", "D", "E", "F", "G", "H", "I", "J", "K", "L", "M",
               "N", "O", "P", "Q", "R", "S", "T", "U", "V", "W", "X", "Y", "Z"}

\* the regular-expression classes \d and \w
IsDigit(c) == c \in DigitChars
IsWord(c) == c \in DigitChars \cup LowerChars \cup UpperChars \cup {"_"}

Min(a, b) == IF a < b THEN a ELSE b

DigitValue(c) == CHOOSE v \in 0..9 : Digits[v + 1] = c

\* parseInt on a run of decimal digits
RECURSIVE parseInt(_)
parseInt(s) ==
  IF Len(s) = 0 THEN 0
  ELSE 10 * parseInt(SubSeq(s, 1, Len(s) - 1)) + DigitValue(s[Len(s)])

\* `${number}` for a non-negative integer
RECURSIVE NumberToString(_)
NumberToString(n) ==
  IF n < 10 THEN <<Digits[n + 1]>>
  ELSE NumberToString(n \div 10) \o <<Digits[(n % 10) + 1]>>

\* String(n).padStart(width, "0")
RECURSIVE padStart(_, _)
padStart(s, width) == IF Len(s) >= width THEN s ELSE padStart(<<"0">> \o s, width)

\* number of characters from position i on that satisfy the class (greedy run)
RECURSIVE DigitRun(_, _)
DigitRun(s, i) == IF i <= Len(s) /\ IsDigit(s[i]) THEN 1 + DigitRun(s, i + 1) ELSE 0

RECURSIVE WordRun(_, _)
WordRun(s, i) == IF i <= Len(s) /\ IsWord(s[i]) THEN 1 + WordRun(s, i + 1) ELSE 0

(***************************************************************************)
(* td.match(/(\d+)(\w+)/) tried at position i: \d+ takes the whole digit   *)
(* run; if no word character follows it gives one digit back to \w+.       *)
(* The result is <<m[1], m[2]>>, or <<>> when the pattern fails at i.      *)
(***************************************************************************)
NoMatch == <<>>

MatchAt(s, i) ==
  LET d == DigitRun(s, i)
      w == WordRun(s, i + d)
  IN  IF d = 0 THEN NoMatch
      ELSE IF w > 0 THEN <<SubSeq(s, i, i + d - 1), SubSeq(s, i + d, i + d + w - 1)>>
      ELSE IF d >= 2 THEN <<SubSeq(s, i, i + d - 2), SubSeq(s, i + d - 1, i + d - 1)>>
      ELSE NoMatch

\* the leftmost position where the pattern matches
RECURSIVE MatchFrom(_, _)
MatchFrom(s, i) ==
  IF i > Len(s) THEN NoMatch
  ELSE IF MatchAt(s, i) # NoMatch THEN MatchAt(s, i)
  ELSE MatchFrom(s, i + 1)

Match(s) == MatchFrom(s, 1)

weeks == <<"w", "e", "e", "k", "s">>
months == <<"m", "o", "n", "t", "h", "s">>
years == <<"y", "e", "a", "r", "s">>

\* the values of the numbers and units arrays
numbers == <<1, 2, 3, 4, 5, 6, 7, 8, 9>>
units == <<weeks, months, years>>
UnitValues == {units[i] : i \in 1..Len(units)}

\* parseTimeDelay: the tolerant parse used for storage and for quick picks
parseTimeDelay(td) ==
  LET m == Match(td)
  IN  [number |-> IF m # NoMatch THEN parseInt(m[1]) ELSE 1,
       unit |-> IF m # NoMatch THEN m[2] ELSE weeks]

\* `${number}${unit}`
TimeDelayOf(number, unit) == NumberToString(number) \o unit

(***************************************************************************)
(* Calendar arithmetic of the JavaScript Date object and of date-fns.      *)
(* The local zone is a fixed offset of tz minutes east of UTC.             *)
(***************************************************************************)
MsPerMinute == 60 * 1000
MsPerDay == 24 * 60 * MsPerMinute

\* days since 1970-01-01 of the civil date y-m-d (m in 1..12)
DaysFromCivil(y, m, d) ==
  LET yy == IF m <= 2 THEN y - 1 ELSE y
      era == yy \div 400
      yoe == yy - era * 400
      mp == IF m > 2 THEN m - 3 ELSE m + 9
      doy == (153 * mp + 2) \div 5 + d - 1
      doe == yoe * 365 + yoe \div 4 - yoe \div 100 + doy
  IN  era * 146097 + doe - 719468

\* the civil date [y, m, d] (m in 1..12) of a day number, computed in steps:
\* the year of the 400-year era, the day of that year, the month counted
\* from March, and then the date
YearOfEra(doe) ==
  (doe - doe \div 1460 + doe \div 36524 - doe \div 146096) \div 365

DayOfYear(doe, yoe) == doe - (365 * yoe + yoe \div 4 - yoe \div 100)

MonthFromMarch(doy) == (5 * doy + 2) \div 153

CivilOfMonth(era, yoe, doy, mp) ==
  [y |-> yoe + era * 400 + (IF mp < 10 THEN 0 ELSE 1),
   m |-> IF mp < 10 THEN mp + 3 ELSE mp - 9,
   d |-> doy - (153 * mp + 2) \div 5 + 1]

CivilOfDayOfYear(era, yoe, doy) == CivilOfMonth(era, yoe, doy, MonthFromMarch(doy))

CivilOfYearOfEra(era, doe, yoe) == CivilOfDayOfYear(era, yoe, DayOfYear(doe, yoe))

CivilOfEra(z, era) ==
  CivilOfYearOfEra(era, z - era * 146097, YearOfEra(z - era * 146097))

CivilFromDays(z0) == CivilOfEra(z0 + 719468, (z0 + 719468) \div 146097)

IsLeap(y) == (y % 4 = 0 /\ y % 100 # 0) \/ y % 400 = 0

DaysInMonth(y, m) ==
  IF m = 2 THEN (IF IsLeap(y) THEN 29 ELSE 28)
  ELSE IF m \in {4, 6, 9, 11} THEN 30 ELSE 31

\* new Date(t.getTime() + delta)
AddMs(t, delta) ==
  LET total == t.ms + delta
  IN  [day |-> t.day + total \div MsPerDay, ms |-> total % MsPerDay]

\* a.getTime() - b.getTime(), for instants at most a few days apart
DiffMs(a, b) == (a.day - b.day) * MsPerDay + (a.ms - b.ms)

\* the local wall-clock reading of an instant: getFullYear(), getMonth() + 1,
\* getDate(), getHours(), getMinutes(), getSeconds(), getMilliseconds()
LocalFields(t, tz) ==
  LET loc == AddMs(t, tz * MsPerMinute)
      c == CivilFromDays(loc.day)
  IN  [year |-> c.y, month |-> c.m, date |-> c.d,
       hours |-> loc.ms \div (60 * MsPerMinute),
       minutes |-> (loc.ms \div MsPerMinute) % 60,
       seconds |-> (loc.ms \div 1000) % 60,
       millis |-> loc.ms % 1000,
       msOfDay |-> loc.ms]

\* Date.setFullYear(y, m0, d) / setMonth / setDate on local fields: month m0
\* is zero-based and may lie outside 0..11, the day may lie outside the month
\* (day 0 is the last day of the month before); the time of day is kept
SetLocalDate(t, y, m0, d, tz) ==
  LET yy == y + m0 \div 12
      mm == (m0 % 12) + 1
      f == LocalFields(t, tz)
  IN  AddMs([day |-> DaysFromCivil(yy, mm, 1) + d - 1, ms |-> f.msOfDay],
            0 - tz * MsPerMinute)

\* date-fns addDays: date.setDate(date.getDate() + amount)
addDays(t, amount, tz) ==
  IF amount = 0 THEN t
  ELSE LET f == LocalFields(t, tz)
       IN  SetLocalDate(t, f.year, f.month - 1, f.date + amount, tz)

\* date-fns addWeeks: addDays(date, amount * 7)
addWeeks(t, amount, tz) == addDays(t, amount * 7, tz)

\* addMonths as a bare setMonth: a day past the end of the desired month runs
\* over into the month after it
addMonthsOverflow(t, amount, tz) ==
  IF amount = 0 THEN t
  ELSE SetLocalDate(t, LocalFields(t, tz).year, LocalFields(t, tz).month - 1 + amount,
                    LocalFields(t, tz).date, tz)

\* date-fns addMonths: the day of the month is kept unless the desired month
\* is shorter, and then its last day is taken
addMonths(t, amount, tz) ==
  IF amount = 0 THEN t
  ELSE LET f == LocalFields(t, tz)
           dayOfMonth == f.date
           endOfDesiredMonth == SetLocalDate(t, f.year, f.month - 1 + amount + 1, 0, tz)
           e == LocalFields(endOfDesiredMonth, tz)
           daysInMonth == e.date
       IN  IF dayOfMonth >= daysInMonth THEN endOfDesiredMonth
           ELSE SetLocalDate(t, e.year, e.month - 1, dayOfMonth, tz)

\* date-fns addYears: addMonths(date, amount * 12)
addYears(t, amount, tz) == addMonths(t, amount * 12, tz)

\* units[i].fn(num), with new Date() read as now
UnitFn(unit, num, now, tz) ==
  IF unit = weeks THEN addWeeks(now, num, tz)
  ELSE IF unit = months THEN addMonths(now, num, tz)
  ELSE addYears(now, num, tz)

\* the fixed event duration, 30 * 60000
DurationMs == 30 * 60000

\* getEventDates with the duration taken from the unit (weeks: 30 minutes,
\* months and years: an hour)
getEventDatesUnitDuration(timeDelay, now, tz) ==
  LET match == Match(timeDelay)
      number == IF match # NoMatch THEN parseInt(match[1]) ELSE 1
      unit == IF match # NoMatch THEN match[2] ELSE weeks
      startDate == IF unit \in UnitValues THEN UnitFn(unit, number, now, tz)
                   ELSE addWeeks(now, 1, tz)
      endDate == AddMs(startDate, IF unit = weeks THEN DurationMs ELSE 2 * DurationMs)
  IN  [startDate |-> startDate, endDate |-> endDate]

\* getEventDates with the parsed count kept when the unit is unknown
getEventDatesKeepCount(timeDelay, now, tz) ==
  LET match == Match(timeDelay)
      number == IF match # NoMatch THEN parseInt(match[1]) ELSE 1
      unit == IF match # NoMatch THEN match[2] ELSE weeks
      startDate == IF unit \in UnitValues THEN UnitFn(unit, number, now, tz)
                   ELSE addWeeks(now, number, tz)
      endDate == AddMs(startDate, DurationMs)
  IN  [startDate |-> startDate, endDate |-> endDate]

(***************************************************************************)
(* getEventDates(data): the offset resolver.  now is the value of          *)
(* new Date() at the call.                                                 *)
(***************************************************************************)
getEventDates(timeDelay, now, tz) ==
  LET match == Match(timeDelay)
      number == IF match # NoMatch THEN parseInt(match[1]) ELSE 1
      unit == IF match # NoMatch THEN match[2] ELSE weeks
      startDate == IF unit \in UnitValues THEN UnitFn(unit, number, now, tz)
                   ELSE addWeeks(now, 1, tz)
      endDate == AddMs(startDate, DurationMs)
  IN  [startDate |-> startDate, endDate |-> endDate]

(***************************************************************************)
(* generateICS(data): the calendar document.                               *)
(***************************************************************************)
\* s.replace(/[-:]/g, "")
RECURSIVE RemoveDashColon(_)
RemoveDashColon(s) ==
  IF Len(s) = 0 THEN <<>>
  ELSE IF Head(s) \in {"-", ":"} THEN RemoveDashColon(Tail(s))
  ELSE <<Head(s)>> \o RemoveDashColon(Tail(s))

\* s.replace(/\.\d{3}/, ""): the first "." followed by three digits is removed
RECURSIVE RemoveMillis(_)
RemoveMillis(s) ==
  IF Len(s) = 0 THEN <<>>
  ELSE IF Head(s) = "." /\ DigitRun(s, 2) >= 3 THEN SubSeq(s, 5, Len(s))
  ELSE <<Head(s)>> \o RemoveMillis(Tail(s))

\* s.replace(/\n/g, "\\n"): every line feed becomes backslash, n
RECURSIVE EscapeNewlines(_)
EscapeNewlines(s) ==
  IF Len(s) = 0 THEN <<>>
  ELSE IF Head(s) = LF THEN <<BACKSLASH, "n">> \o EscapeNewlines(Tail(s))
  ELSE <<Head(s)>> \o EscapeNewlines(Tail(s))

\* lines.join(sep)
RECURSIVE Join(_, _)
Join(lines, sep) ==
  IF Len(lines) = 0 THEN <<>>
  ELSE IF Len(lines) = 1 THEN lines[1]
  ELSE lines[1] \o sep \o Join(Tail(lines), sep)

\* Date.prototype.toISOString(): YYYY-MM-DDTHH:mm:ss.sssZ in UTC
toISOString(t) ==
  LET f == LocalFields(t, 0)
  IN  padStart(NumberToString(f.year), 4) \o <<"-">>
      \o padStart(NumberToString(f.month), 2) \o <<"-">>
      \o padStart(NumberToString(f.date), 2) \o <<"T">>
      \o padStart(NumberToString(f.hours), 2) \o <<":">>
      \o padStart(NumberToString(f.minutes), 2) \o <<":">>
      \o padStart(NumberToString(f.seconds), 2) \o <<".">>
      \o padStart(NumberToString(f.millis), 3) \o <<"Z">>

\* `${Date.now()}`: the time value in decimal (whole seconds, then the
\* three millisecond digits), for instants after 1970-01-01
DateNowString(t) ==
  NumberToString(t.day * (24 * 60 * 60) + t.ms \div 1000)
  \o padStart(NumberToString(t.ms % 1000), 3)

\* formatDate on the UTC fields (getUTCFullYear, getUTCMonth, ...)
formatDateUTC(t, tz) ==
  NumberToString(LocalFields(t, 0).year)
  \o padStart(NumberToString(LocalFields(t, 0).month), 2)
  \o padStart(NumberToString(LocalFields(t, 0).date), 2)
  \o <<"T">>
  \o padStart(NumberToString(LocalFields(t, 0).hours), 2)
  \o padStart(NumberToString(LocalFields(t, 0).minutes), 2)
  \o padStart(NumberToString(LocalFields(t, 0).seconds), 2)

\* formatDate(date): local wall-clock fields, YYYYMMDDTHHMMSS
formatDate(t, tz) ==
  LET f == LocalFields(t, tz)
  IN  NumberToString(f.year)
      \o padStart(NumberToString(f.month), 2)
      \o padStart(NumberToString(f.date), 2)
      \o <<"T">>
      \o padStart(NumberToString(f.hours), 2)
      \o padStart(NumberToString(f.minutes), 2)
      \o padStart(NumberToString(f.seconds), 2)

\* the records of the document, icsContent before the join
icsLines(data, now, tz) ==
  LET uid == DateNowString(now) \o <<"@", "r", "e", "c", "a", "l", ".", "a", "p", "p">>
      dtstamp == RemoveMillis(RemoveDashColon(toISOString(now)))
      ev == getEventDates(data.timeDelay, now, tz)
  IN  << <<"B", "E", "G", "I", "N", ":", "V", "C", "A", "L", "E", "N", "D", "A", "R">>,
         <<"V", "E", "R", "S", "I", "O", "N", ":", "2", ".", "0">>,
         <<"P", "R", "O", "D", "I", "D", ":", "-", "/", "/", "R", "e", "C", "a", "l", "/", "/", "R", "e", "C", "a", "l", " ", "1", ".", "0", "/", "/", "E", "N">>,
         <<"C", "A", "L", "S", "C", "A", "L", "E", ":", "G", "R", "E", "G", "O", "R", "I", "A", "N">>,
         <<"M", "E", "T", "H", "O", "D", ":", "P", "U", "B", "L", "I", "S", "H">>,
         <<"B", "E", "G", "I", "N", ":", "V", "E", "V", "E", "N", "T">>,
         <<"U", "I", "D", ":">> \o uid,
         <<"D", "T", "S", "T", "A", "M", "P", ":">> \o dtstamp,
         <<"D", "T", "S", "T", "A", "R", "T", ":">> \o formatDate(ev.startDate, tz),
         <<"D", "T", "E", "N", "D", ":">> \o formatDate(ev.endDate, tz),
         <<"S", "U", "M", "M", "A", "R", "Y", ":">> \o data.title,
         <<"D", "E", "S", "C", "R", "I", "P", "T", "I", "O", "N", ":">> \o EscapeNewlines(data.content),
         <<"E", "N", "D", ":", "V", "E", "V", "E", "N", "T">>,
         <<"E", "N", "D", ":", "V", "C", "A", "L", "E", "N", "D", "A", "R">> >>

generateICS(data, now, tz) == Join(icsLines(data, now, tz), <<CR, LF>>)

\* updateRecents: the next list, [timeDelay, ...prev.filter(v => v !== timeDelay)].slice(0, 3)
RecentsMax == 3

\* updateRecents without the filter: [timeDelay, ...prev].slice(0, 3)
updateRecentsNoFilter(prev, timeDelay) ==
  LET all == <<timeDelay>> \o prev
  IN  SubSeq(all, 1, Min(Len(all), RecentsMax))

updateRecents(prev, timeDelay) ==
  LET all == <<timeDelay>> \o SelectSeq(prev, LAMBDA v : v # timeDelay)
  IN  SubSeq(all, 1, Min(Len(all), RecentsMax))

(***************************************************************************)
(* The download name: title.toLowerCase().slice(0, 30)                     *)
(*   .replace(/[^a-z0-9]+/g, "-").replace(/(^-|-$)/g, "")                  *)
(***************************************************************************)
LowerSeq == <<"a", "b", "c", "d", "e", "f", "g", "h", "i", "j", "k", "l", "m",
              "n", "o", "p", "q", "r", "s", "t", "u", "v", "w", "x", "y", "z">>
UpperSeq == <<"A", "B", "C", "D", "E", "F", "G", "H", "I", "J", "K", "L", "M",
              "N", "O", "P", "Q", "R", "S", "T", "U", "V", "W", "X", "Y", "Z">>

toLowerCaseChar(c) ==
  IF c \in UpperChars THEN LowerSeq[CHOOSE i \in 1..26 : UpperSeq[i] = c] ELSE c

toLowerCase(s) == [i \in 1..Len(s) |-> toLowerCaseChar(s[i])]

IsSlugChar(c) == c \in LowerChars \cup DigitChars

\* s.replace(/[^a-z0-9]/g, "-"): every other character becomes a hyphen
ReplaceEach(s) == [i \in 1..Len(s) |-> IF IsSlugChar(s[i]) THEN s[i] ELSE "-"]

\* s.replace(/[^a-z0-9]+/g, "-"): every run of other characters becomes one hyphen
RECURSIVE ReplaceRuns(_)
ReplaceRuns(s) ==
  IF Len(s) = 0 THEN <<>>
  ELSE IF IsSlugChar(Head(s)) THEN <<Head(s)>> \o ReplaceRuns(Tail(s))
  ELSE IF Len(s) >= 2 /\ ~IsSlugChar(s[2]) THEN ReplaceRuns(Tail(s))
  ELSE <<"-">> \o ReplaceRuns(Tail(s))

\* s.replace(/(^-|-$)/g, ""): one hyphen at the start and one at the end are removed
StripHyphens(s) ==
  LET a == IF Len(s) >= 1 /\ s[1] = "-" THEN Tail(s) ELSE s
  IN  IF Len(a) >= 1 /\ a[Len(a)] = "-" THEN SubSeq(a, 1, Len(a) - 1) ELSE a

SlugMax == 30

downloadName(title) ==
  LET low == toLowerCase(title)
      cut == SubSeq(low, 1, Min(Len(low), SlugMax))
  IN  <<"r", "e", "c", "a", "l", "-">> \o StripHyphens(ReplaceRuns(cut)) \o <<".", "i", "c", "s">>

(***************************************************************************)
(* The page: React state of Home, the form, localStorage and what the      *)
(* page handed to the browser.                                             *)
(***************************************************************************)
VARIABLES
  pc,              \* "mount": first render done, effects not yet run;
                   \* "effects": the load effect ran, the last-selection effect not yet;
                   \* "ready": the mount effects have run
  selectedNumber,  \* useState(1)
  selectedUnit,    \* useState("weeks")
  recentDelays,    \* useState<string[]>([])
  effectDeps,      \* [selectedNumber, selectedUnit] at the last run of the last-selection effect
  form,            \* the form values: title, content, timeDelay
  formState,       \* react-hook-form: submitCount and whether errors.title is set
  storage,         \* localStorage: the values under LAST_KEY and RECENTS_KEY
  artifact,        \* what the last step handed to the browser (file, tab, clipboard)
  copyPromise,     \* the promise of navigator.clipboard.writeText whose callbacks are pending
  toast,           \* the toast the last step showed
  events,          \* submits and page reloads so far
  lastAtMount,     \* observation: the value of LAST_KEY the load effect read
  picked,          \* observation: the picker was changed since the page loaded
  shownAfterAction, \* observation: recentDelays as the last artifact action left it
  fnCall,          \* a direct call of one of the page's functions: its arguments
  fnRet            \* and its result

pageVars == <<pc, selectedNumber, selectedUnit, recentDelays, effectDeps, form,
              formState, storage, artifact, copyPromise, toast, events,
              lastAtMount, picked, shownAfterAction>>
fnVars == <<fnCall, fnRet>>
vars == <<pageVars, fnVars>>

\* bound of the model: the submits and page reloads of a run
MaxEvents == 2

\* the positions the number wheel reports: the first, the last and one past
\* the last
NumberIdxInputs == {0, Len(numbers) - 1, Len(numbers)}

\* what RECENTS_KEY can hold: a JSON text, by what JSON.parse makes of it
JsonArray(items) == [kind |-> "array", items |-> items]
JsonInvalid == [kind |-> "invalid", items |-> <<>>]
JsonObject == [kind |-> "object", items |-> <<>>]
EmptyText == [kind |-> "empty", items |-> <<>>]

\* JSON.stringify of a list of strings
JSONstringify(list) == JsonArray(list)

days == <<"d", "a", "y", "s">>
garbage == <<"g", "a", "r", "b", "a", "g", "e">>

\* what localStorage holds when the page is first loaded: nothing (a first
\* visit), what the page itself wrote earlier, or anything else
StorageInputs ==
  { [last |-> None, recents |-> None],
    [last |-> Some(TimeDelayOf(3, months)),
     recents |-> Some(JsonArray(<<TimeDelayOf(1, weeks), TimeDelayOf(2, months),
                                  TimeDelayOf(3, years), TimeDelayOf(2, weeks)>>))],
    [last |-> Some(<<>>), recents |-> Some(EmptyText)],
    [last |-> Some(garbage), recents |-> Some(JsonInvalid)],
    [last |-> Some(TimeDelayOf(5, days)), recents |-> Some(JsonObject)],
    [last |-> Some(TimeDelayOf(0, weeks)),
     recents |-> Some(JsonArray(<<TimeDelayOf(2, weeks), TimeDelayOf(2, weeks)>>))],
    [last |-> Some(TimeDelayOf(2, years)),
     recents |-> Some(JsonArray(<<TimeDelayOf(5, days), garbage>>))] }

\* what the user types into the title and content fields
FormTexts ==
  { <<<<>>, <<>>>>, <<<<"A", " ", "b">>, <<"x", LF, "y">>>> }

\* the clock and the zone of the browser in the page runs: 2024-01-31 10:00:00.000 UTC
\* in a zone one hour east of UTC
PageClock == [now |-> [day |-> DaysFromCivil(2024, 1, 31), ms |-> 10 * 60 * MsPerMinute],
              tz |-> 60]

defaultValues == [title |-> <<>>, content |-> <<>>, timeDelay |-> TimeDelayOf(1, weeks)]

NoArtifact == [kind |-> "none", ok |-> TRUE, title |-> <<>>, body |-> <<>>,
               name |-> <<>>, dates |-> <<>>]

\* a step that hands nothing to the browser and shows no toast
NoOutput ==
  /\ artifact' = NoArtifact
  /\ toast' = "none"

PageInit ==
  /\ pc = "mount"
  /\ selectedNumber = 1
  /\ selectedUnit = weeks
  /\ recentDelays = <<>>
  /\ effectDeps = None
  /\ form = defaultValues
  /\ formState = [submitCount |-> 0, titleError |-> FALSE]
  /\ artifact = NoArtifact
  /\ copyPromise = "none"
  /\ toast = "none"
  /\ events = 0
  /\ lastAtMount = None
  /\ picked = FALSE
  /\ shownAfterAction = None

\* no direct call
NoCall == [op |-> "none", timeDelay |-> <<>>, now |-> [day |-> 0, ms |-> 0], tz |-> 0,
           title |-> <<>>, content |-> <<>>, prev |-> <<>>]

FnIdle ==
  /\ fnCall = NoCall
  /\ fnRet = None

Init ==
  /\ PageInit
  /\ storage \in StorageInputs
  /\ FnIdle

\* updateTimeDelay(number, unit): form.setValue("timeDelay", `${number}${unit}`)
updateTimeDelay(number, unit) == [form EXCEPT !.timeDelay = TimeDelayOf(number, unit)]

\* arr.slice(0, 3)
Slice3(arr) == SubSeq(arr, 1, Min(Len(arr), RecentsMax))

\* the load effect without the two state setters: only the form value is restored
LoadEffectFormOnly ==
  /\ pc = "mount"
  /\ pc' = "effects"
  /\ LET last == storage.last
     IN  IF last # None /\ last[1] # <<>>
         THEN LET p == parseTimeDelay(last[1])
              IN  /\ form' = updateTimeDelay(p.number, p.unit)
                  /\ UNCHANGED <<selectedNumber, selectedUnit>>
         ELSE /\ form' = updateTimeDelay(selectedNumber, selectedUnit)
              /\ UNCHANGED <<selectedNumber, selectedUnit>>
  /\ LET savedRecents == storage.recents
     IN  IF savedRecents # None /\ savedRecents[1].kind = "array"
         THEN recentDelays' = Slice3(savedRecents[1].items)
         ELSE UNCHANGED recentDelays
  /\ lastAtMount' = storage.last
  /\ UNCHANGED shownAfterAction
  /\ picked' = FALSE
  /\ NoOutput
  /\ UNCHANGED <<effectDeps, formState, storage, copyPromise, events>>
  /\ UNCHANGED fnVars

(***************************************************************************)
(* The load effect (useEffect(..., []), first of the two effects).         *)
(***************************************************************************)
LoadEffect ==
  /\ pc = "mount"
  /\ pc' = "effects"
  /\ LET last == storage.last
     IN  IF last # None /\ last[1] # <<>>
         THEN LET p == parseTimeDelay(last[1])
              IN  /\ selectedNumber' = p.number
                  /\ selectedUnit' = p.unit
                  /\ form' = updateTimeDelay(p.number, p.unit)
         ELSE /\ form' = updateTimeDelay(selectedNumber, selectedUnit)
              /\ UNCHANGED <<selectedNumber, selectedUnit>>
  /\ LET savedRecents == storage.recents
     IN  IF savedRecents # None /\ savedRecents[1].kind = "array"
         THEN recentDelays' = Slice3(savedRecents[1].items)
         ELSE UNCHANGED recentDelays
  /\ lastAtMount' = storage.last
  /\ UNCHANGED shownAfterAction
  /\ picked' = FALSE
  /\ NoOutput
  /\ UNCHANGED <<effectDeps, formState, storage, copyPromise, events>>
  /\ UNCHANGED fnVars

(***************************************************************************)
(* The last-selection effect (useEffect(..., [selectedNumber,              *)
(* selectedUnit])).  Its first run belongs to the first render, whose      *)
(* selectedNumber and selectedUnit are the useState defaults; later runs   *)
(* follow a render in which a dependency changed.                          *)
(***************************************************************************)
\* the write with the values of the first render (a stale closure)
LastSelectionWriteStale(number, unit) ==
  /\ storage' = [storage EXCEPT !.last = Some(TimeDelayOf(1, weeks))]
  /\ effectDeps' = Some(<<number, unit>>)

LastSelectionWrite(number, unit) ==
  /\ storage' = [storage EXCEPT !.last = Some(TimeDelayOf(number, unit))]
  /\ effectDeps' = Some(<<number, unit>>)

LastSelectionEffect ==
  /\ \/ /\ pc = "effects"
        /\ pc' = "ready"
        /\ LastSelectionWrite(1, weeks)
     \/ /\ pc = "ready"
        /\ effectDeps # Some(<<selectedNumber, selectedUnit>>)
        /\ pc' = pc
        /\ LastSelectionWrite(selectedNumber, selectedUnit)
  /\ NoOutput
  /\ UNCHANGED <<selectedNumber, selectedUnit, recentDelays, form, formState,
                 copyPromise, events, lastAtMount, picked, shownAfterAction>>
  /\ UNCHANGED fnVars

\* the page is rendered with its current state and no effect or callback is pending
Settled ==
  /\ pc = "ready"
  /\ effectDeps = Some(<<selectedNumber, selectedUnit>>)
  /\ copyPromise = "none"

(***************************************************************************)
(* The picker: the two wheels and the recent quick picks.                  *)
(***************************************************************************)
\* numbers[idx] ?? 1, idx counted from 0
NumberAt(idx) == IF idx \in 0..(Len(numbers) - 1) THEN numbers[idx + 1] ELSE 1

\* (units[idx] ?? units[0]).value, idx counted from 0
UnitAt(idx) == IF idx \in 0..(Len(units) - 1) THEN units[idx + 1] ELSE units[1]

NumberWheelChange(idx) ==
  /\ Settled
  /\ LET num == NumberAt(idx)
     IN  /\ selectedNumber' = num
         /\ form' = updateTimeDelay(num, selectedUnit)
  /\ NoOutput
  /\ picked' = TRUE
  /\ UNCHANGED <<pc, selectedUnit, recentDelays, effectDeps, formState, storage,
                 copyPromise, events, lastAtMount, shownAfterAction>>
  /\ UNCHANGED fnVars

\* the unit wheel's onChange writing the unit of the render instead of the
\* chosen one: updateTimeDelay(selectedNumber, selectedUnit)
UnitWheelChangeOldUnit(idx) ==
  /\ Settled
  /\ LET u == UnitAt(idx)
     IN  /\ selectedUnit' = u
         /\ form' = updateTimeDelay(selectedNumber, selectedUnit)
  /\ NoOutput
  /\ picked' = TRUE
  /\ UNCHANGED <<pc, selectedNumber, recentDelays, effectDeps, formState, storage,
                 copyPromise, events, lastAtMount, shownAfterAction>>
  /\ UNCHANGED fnVars

UnitWheelChange(idx) ==
  /\ Settled
  /\ LET u == UnitAt(idx)
     IN  /\ selectedUnit' = u
         /\ form' = updateTimeDelay(selectedNumber, u)
  /\ NoOutput
  /\ picked' = TRUE
  /\ UNCHANGED <<pc, selectedNumber, recentDelays, effectDeps, formState, storage,
                 copyPromise, events, lastAtMount, shownAfterAction>>
  /\ UNCHANGED fnVars

\* the onClick of the i-th recent pick button
QuickPickClick(i) ==
  /\ Settled
  /\ i \in 1..Len(recentDelays)
  /\ LET p == parseTimeDelay(recentDelays[i])
     IN  /\ selectedNumber' = p.number
         /\ selectedUnit' = p.unit
         /\ form' = updateTimeDelay(p.number, p.unit)
  /\ NoOutput
  /\ picked' = TRUE
  /\ UNCHANGED <<pc, recentDelays, effectDeps, formState, storage,
                 copyPromise, events, lastAtMount, shownAfterAction>>
  /\ UNCHANGED fnVars

\* the schema without min(1)
formSchemaNoMin(data) == Len(data.title) >= 0

\* formSchema: title: z.string().min(1)
formSchemaValid(data) == Len(data.title) >= 1

\* typing into the title and content fields; once the form was submitted the
\* fields are validated again on every change
FieldChange(title, content) ==
  /\ Settled
  /\ form' = [form EXCEPT !.title = title, !.content = content]
  /\ formState' = IF formState.submitCount > 0
                  THEN [formState EXCEPT !.titleError = ~formSchemaValid(form')]
                  ELSE formState
  /\ NoOutput
  /\ UNCHANGED <<pc, selectedNumber, selectedUnit, recentDelays, effectDeps, storage,
                 copyPromise, events, lastAtMount, picked, shownAfterAction>>
  /\ UNCHANGED fnVars

(***************************************************************************)
(* The artifact actions.  Each takes the validated form values.            *)
(***************************************************************************)
\* updateRecents writing the list it was given instead of the new one:
\* setItem(RECENTS_KEY, JSON.stringify(prev))
UpdateRecentsStepWritePrev(timeDelay) ==
  /\ recentDelays' = updateRecents(recentDelays, timeDelay)
  /\ storage' = [storage EXCEPT !.recents = Some(JSONstringify(recentDelays))]

\* updateRecents(timeDelay): the state update and the write of RECENTS_KEY
UpdateRecentsStep(timeDelay) ==
  LET next == updateRecents(recentDelays, timeDelay)
  IN  /\ recentDelays' = next
      /\ storage' = [storage EXCEPT !.recents = Some(JSONstringify(next))]

downloadICS(data) ==
  /\ artifact' = [kind |-> "download", ok |-> TRUE, title |-> data.title,
                  body |-> generateICS(data, PageClock.now, PageClock.tz),
                  name |-> downloadName(data.title), dates |-> <<>>]
  /\ toast' = "Calendar file downloaded!"
  /\ UpdateRecentsStep(data.timeDelay)
  /\ UNCHANGED copyPromise

addToGoogleCalendar(data) ==
  /\ LET ev == getEventDates(data.timeDelay, PageClock.now, PageClock.tz)
     IN  artifact' = [kind |-> "google", ok |-> TRUE, title |-> data.title,
                      body |-> data.content, name |-> <<>>,
                      dates |-> <<ev.startDate, ev.endDate>>]
  /\ toast' = "Opening Google Calendar..."
  /\ UpdateRecentsStep(data.timeDelay)
  /\ UNCHANGED copyPromise

addToOutlook(data) ==
  /\ LET ev == getEventDates(data.timeDelay, PageClock.now, PageClock.tz)
     IN  artifact' = [kind |-> "outlook", ok |-> TRUE, title |-> data.title,
                      body |-> data.content, name |-> <<>>,
                      dates |-> <<ev.startDate, ev.endDate>>]
  /\ toast' = "Opening Outlook Calendar..."
  /\ UpdateRecentsStep(data.timeDelay)
  /\ UNCHANGED copyPromise

\* the clipboard write is accepted (ok) or rejected by the browser; its
\* callbacks run later (ClipboardSettled)
copyEventDetails(data, ok) ==
  /\ LET ev == getEventDates(data.timeDelay, PageClock.now, PageClock.tz)
     IN  artifact' = [kind |-> "copy", ok |-> ok, title |-> data.title,
                      body |-> data.content, name |-> <<>>,
                      dates |-> <<ev.startDate>>]
  /\ copyPromise' = IF ok THEN "fulfilled" ELSE "rejected"
  /\ UpdateRecentsStep(data.timeDelay)
  /\ toast' = "none"

\* the .then / .catch callbacks of the clipboard write
ClipboardSettled ==
  /\ copyPromise # "none"
  /\ toast' = IF copyPromise = "fulfilled" THEN "Event details copied to clipboard!"
              ELSE "Failed to copy to clipboard"
  /\ copyPromise' = "none"
  /\ artifact' = NoArtifact
  /\ UNCHANGED <<pc, selectedNumber, selectedUnit, recentDelays, effectDeps, form,
                 formState, storage, events, lastAtMount, picked, shownAfterAction>>
  /\ UNCHANGED fnVars

ActionKinds == {"download", "google", "outlook", "copy"}

\* form.handleSubmit(handler)(): the handler runs only with values that pass
\* formSchema; otherwise errors.title is set and nothing else happens
handleSubmit(kind, ok) ==
  /\ Settled
  /\ events < MaxEvents
  /\ events' = events + 1
  /\ IF formSchemaValid(form)
     THEN /\ formState' = [submitCount |-> formState.submitCount + 1, titleError |-> FALSE]
          /\ CASE kind = "download" -> downloadICS(form)
               [] kind = "google" -> addToGoogleCalendar(form)
               [] kind = "outlook" -> addToOutlook(form)
               [] kind = "copy" -> copyEventDetails(form, ok)
          /\ shownAfterAction' = Some(recentDelays')
     ELSE /\ formState' = [submitCount |-> formState.submitCount + 1, titleError |-> TRUE]
          /\ NoOutput
          /\ UNCHANGED <<recentDelays, storage, copyPromise, shownAfterAction>>
  /\ UNCHANGED <<pc, selectedNumber, selectedUnit, effectDeps, form, lastAtMount, picked>>
  /\ UNCHANGED fnVars

\* the page is closed and loaded again: React state and the form start over,
\* localStorage stays
Reload ==
  /\ events < MaxEvents
  /\ events' = events + 1
  /\ pc' = "mount"
  /\ selectedNumber' = 1
  /\ selectedUnit' = weeks
  /\ recentDelays' = <<>>
  /\ effectDeps' = None
  /\ form' = defaultValues
  /\ formState' = [submitCount |-> 0, titleError |-> FALSE]
  /\ NoOutput
  /\ copyPromise' = "none"
  /\ lastAtMount' = None
  /\ UNCHANGED shownAfterAction
  /\ picked' = FALSE
  /\ UNCHANGED storage
  /\ UNCHANGED fnVars

NumberWheel == \E idx \in NumberIdxInputs : NumberWheelChange(idx)

\* the unit wheel reports a position of units, or one past the last
UnitWheel == \E idx \in 0..Len(units) : UnitWheelChange(idx)

QuickPick == \E i \in 1..RecentsMax : QuickPickClick(i)

Typing == \E t \in FormTexts : FieldChange(t[1], t[2])

\* the four buttons; only the clipboard write has an outcome the page hears of
SubmitDownload == handleSubmit("download", TRUE)
SubmitGoogle == handleSubmit("google", TRUE)
SubmitOutlook == handleSubmit("outlook", TRUE)
SubmitCopy == \E ok \in BOOLEAN : handleSubmit("copy", ok)

Next ==
  \/ LoadEffect
  \/ LastSelectionEffect
  \/ NumberWheel
  \/ UnitWheel
  \/ QuickPick
  \/ Typing
  \/ SubmitDownload
  \/ SubmitGoogle
  \/ SubmitOutlook
  \/ SubmitCopy
  \/ ClipboardSettled
  \/ Reload

Spec == Init /\ [][Next]_vars

(***************************************************************************)
(* The page's functions called directly, on inputs drawn from bounded      *)
(* sets: the resolver, the document generator and the recents update.      *)
(***************************************************************************)
\* an instant given by its UTC date and time of day
At(y, m, d, hh, mm, ss, ms) ==
  [day |-> DaysFromCivil(y, m, d), ms |-> ((hh * 60 + mm) * 60 + ss) * 1000 + ms]

\* the values of new Date(): month ends, a leap day, the end of a year, the
\* last minutes of a day
Anchors ==
  { At(2024, 1, 31, 10, 0, 0, 0),
    At(2024, 2, 29, 23, 45, 12, 345),
    At(2023, 12, 31, 23, 59, 59, 999),
    At(2025, 3, 31, 0, 10, 0, 0),
    At(2026, 11, 3, 12, 0, 0, 1),
    At(2023, 8, 30, 18, 29, 59, 0) }

\* the zones, in minutes east of UTC
Zones == {0 - 480, 0, 330}

CanonicalTokens == {TimeDelayOf(numbers[i], u) : i \in 1..Len(numbers), u \in UnitValues}

\* tokens that are not canonical: no digits, no unit, unknown units, text
\* around the token, a count of 0 or of two digits
OtherTokens ==
  { <<>>, garbage, weeks, <<"3">>, <<"1", "2">>, <<"7", "_">>,
    TimeDelayOf(5, days), TimeDelayOf(0, weeks), TimeDelayOf(12, weeks),
    TimeDelayOf(10, years), TimeDelayOf(4, days),
    <<"3", " ">> \o weeks, <<"x">> \o TimeDelayOf(3, weeks),
    TimeDelayOf(3, weeks) \o <<" ", "l", "a", "t", "e", "r">>,
    TimeDelayOf(3, weeks) \o <<"s">>, <<"3", "W", "e", "e", "k", "s">>,
    <<"3", "w", "e", "e", "k">>, <<"2", " ">> \o TimeDelayOf(3, months),
    <<"-", "2">> \o months, <<"2", ".", "5">> \o years }

TokenInputs == CanonicalTokens \cup OtherTokens

ResolveCalls ==
  { [NoCall EXCEPT !.op = "getEventDates", !.timeDelay = td, !.now = now, !.tz = tz] :
      td \in TokenInputs, now \in Anchors, tz \in Zones }

TitleInputs == { <<"a">>, <<"A", " ", "b">>, <<"R", ":", LF, "x">>, <<"a", CR, LF, "b">> }

ContentInputs ==
  { <<>>, <<"x", LF, "y">>, <<"a", BACKSLASH, "n", "b">>, <<"x", CR, LF, "y", LF>>, <<LF>> }

IcsCalls ==
  { [NoCall EXCEPT !.op = "generateICS", !.timeDelay = td, !.now = now, !.tz = tz,
                   !.title = title, !.content = content] :
      td \in {TimeDelayOf(2, months), garbage}, now \in Anchors, tz \in Zones,
      title \in TitleInputs, content \in ContentInputs }

\* titles: short, with punctuation at the ends and inside, of 30 and of more
\* than 30 characters, with the cut inside a run of punctuation
NameInputs ==
  { <<"a">>,
    <<"R", "e", "v", "i", "s", "i", "t", ":", " ", "M", "y", " ", "D", "e", "c", "i", "s", "i", "o", "n", "!", "!">>,
    <<"!", "!", "!">>,
    <<"-">>,
    <<"-", "-", "A", "-", "-">>,
    <<" ", "Q", "4", " ", "2", "0", "2", "5", " ", "/", " ", "p", "l", "a", "n", " ">>,
    <<"a", "_", "b", "-", "c", ".", "D">>,
    <<"x", "x", "x", "x", "x", "x", "x", "x", "x", "x", "x", "x", "x", "x", "x", "x", "x", "x", "x", "x", "x", "x", "x", "x", "x", "x", "x", "x", "x", "x">>,
    <<"x", "x", "x", "x", "x", "x", "x", "x", "x", "x", "x", "x", "x", "x", "x", "x", "x", "x", "x", "x", "x", "x", "x", "x", "x", "x", "x", "x", "x", "x", "x">>,
    <<"R", "e", "v", "i", "s", "i", "t", ":", " ", "m", "y", " ", "d", "e", "c", "i", "s", "i", "o", "n", " ", "a", "b", "o", "u", "t", " ", "i", "t", " ", "!", "l", "a", "t", "e", "r">>,
    <<"a", "b", "c", "d", "e", "f", "g", "h", "i", "j", "k", "l", "m", "n", "o", "p", "q", "r", "s", "t", "u", "v", "w", "x", "y", "z", "0", "1", ":", " ", "2", "3", "4", "5">>,
    <<" ", " ", "!", "R", "e", "a", "d", " ", " ", "m", "e", ",", " ", "L", "A", "T", "E", "R", "?", " ", " ">>,
    <<"A", LF, "b">> }

NameCalls == { [NoCall EXCEPT !.op = "downloadName", !.title = title] : title \in NameInputs }

RecentTokenInputs ==
  { TimeDelayOf(1, weeks), TimeDelayOf(2, months), TimeDelayOf(3, years), TimeDelayOf(5, days) }

\* the lists recentDelays can hold: at most 3 entries, repeated entries included
RECURSIVE ListsUpTo(_, _)
ListsUpTo(S, n) ==
  IF n = 0 THEN {<<>>}
  ELSE ListsUpTo(S, n - 1) \cup {<<x>> \o l : x \in S, l \in ListsUpTo(S, n - 1)}

RecentsCalls ==
  { [NoCall EXCEPT !.op = "updateRecents", !.timeDelay = td, !.prev = prev] :
      td \in RecentTokenInputs, prev \in ListsUpTo(RecentTokenInputs, RecentsMax) }

InitFn ==
  /\ PageInit
  /\ storage = [last |-> None, recents |-> None]
  /\ fnRet = None
  /\ fnCall \in ResolveCalls \cup IcsCalls \cup RecentsCalls \cup NameCalls

CallGetEventDates ==
  /\ fnCall.op = "getEventDates"
  /\ fnRet = None
  /\ fnRet' = Some(getEventDates(fnCall.timeDelay, fnCall.now, fnCall.tz))
  /\ UNCHANGED <<fnCall, pageVars>>

CallGenerateICS ==
  /\ fnCall.op = "generateICS"
  /\ fnRet = None
  /\ fnRet' = Some(generateICS([title |-> fnCall.title, content |-> fnCall.content,
                                timeDelay |-> fnCall.timeDelay], fnCall.now, fnCall.tz))
  /\ UNCHANGED <<fnCall, pageVars>>

CallUpdateRecents ==
  /\ fnCall.op = "updateRecents"
  /\ fnRet = None
  /\ fnRet' = Some(updateRecents(fnCall.prev, fnCall.timeDelay))
  /\ UNCHANGED <<fnCall, pageVars>>

CallDownloadName ==
  /\ fnCall.op = "downloadName"
  /\ fnRet = None
  /\ fnRet' = Some(downloadName(fnCall.title))
  /\ UNCHANGED <<fnCall, pageVars>>

NextFn ==
  \/ CallGetEventDates
  \/ CallGenerateICS
  \/ CallUpdateRecents
  \/ CallDownloadName

SpecFn == InitFn /\ [][NextFn]_vars

(***************************************************************************)
(* The claims.                                                             *)
(***************************************************************************)
Resolved == fnCall.op = "getEventDates" /\ fnRet # None

\* C1: for every token built from a count in 1..9 and a unit of weeks, months,
\* years, and every anchor instant, getEventDates returns an end instant
\* exactly 30 minutes (1,800,000 ms) after the start instant.
C1_FixedDuration ==
  (Resolved /\ fnCall.timeDelay \in CanonicalTokens)
    => /\ fnRet[1].endDate.ms \in 0..(MsPerDay - 1)
       /\ fnRet[1].startDate.ms \in 0..(MsPerDay - 1)
       /\ DiffMs(fnRet[1].endDate, fnRet[1].startDate) = 1800000

\* C1 witness: 9 years resolved from an anchor late in the day, so that the
\* end instant falls on the next UTC day
C1_Witness ==
  /\ Resolved
  /\ fnCall.timeDelay = TimeDelayOf(9, years)
  /\ fnRet[1].endDate.day = fnRet[1].startDate.day + 1

\* the pattern "one or more digits followed by one or more word characters"
\* occurs in s: some digit is followed by a word character
HasPattern(s) == \E i \in 1..(Len(s) - 1) : IsDigit(s[i]) /\ IsWord(s[i + 1])

IsFallbackToken(td) == ~HasPattern(td) \/ parseTimeDelay(td).unit \notin UnitValues

\* C2: a token that does not match the pattern, or whose parsed unit is not
\* weeks, months or years, resolves to the start and end of the token
\* "1weeks": start = now + 1 week, whatever count was parsed.
C2_FallbackOneWeek ==
  (Resolved /\ IsFallbackToken(fnCall.timeDelay))
    => /\ fnRet[1] = getEventDates(TimeDelayOf(1, weeks), fnCall.now, fnCall.tz)
       /\ fnRet[1].startDate = [day |-> fnCall.now.day + 7, ms |-> fnCall.now.ms]

\* C2 witness: "5days" (a count other than 1, an unknown unit) was resolved
C2_Witness ==
  /\ Resolved
  /\ fnCall.timeDelay = TimeDelayOf(5, days)
  /\ HasPattern(fnCall.timeDelay)

Updated == fnCall.op = "updateRecents" /\ fnRet # None

InList(t, list) == \E i \in 1..Len(list) : list[i] = t

\* the position in prev of the k-th entry other than t
KthOther(prev, t, k) ==
  CHOOSE i \in 1..Len(prev) :
    /\ prev[i] # t
    /\ Cardinality({j \in 1..i : prev[j] # t}) = k

\* C3: updateRecents(t) moves a t that is present to the front, keeps the
\* other entries in their order and does not grow the list; it puts an absent
\* t at the front, and drops the last entry when the list held 3 entries.
C3_UpdateRecents ==
  Updated =>
    LET prev == fnCall.prev
        t == fnCall.timeDelay
        next == fnRet[1]
        others == Cardinality({j \in 1..Len(prev) : prev[j] # t})
    IN  /\ Len(next) >= 1 /\ next[1] = t
        /\ InList(t, prev) =>
             /\ Len(next) <= Len(prev)
             /\ Len(next) = 1 + others
             /\ \A k \in 1..others : next[k + 1] = prev[KthOther(prev, t, k)]
        /\ ~InList(t, prev) =>
             /\ Len(next) = (IF Len(prev) = 3 THEN 3 ELSE Len(prev) + 1)
             /\ \A k \in 2..Len(next) : next[k] = prev[k - 1]

\* C3 witness: a fourth distinct token was added to three distinct ones
C3_Witness ==
  /\ Updated
  /\ Len(fnCall.prev) = 3
  /\ Cardinality({fnCall.prev[i] : i \in 1..3}) = 3
  /\ ~InList(fnCall.timeDelay, fnCall.prev)
  /\ Len(fnRet[1]) = 3

\* C4: in every reachable state of the page the in-memory recent-selections
\* list holds at most 3 entries and no two entries are equal.
C4_AtMostThreeDistinct ==
  /\ Len(recentDelays) <= 3
  /\ \A i, j \in 1..Len(recentDelays) : i # j => recentDelays[i] # recentDelays[j]

\* a step of the loaded page (not the load itself, not a reload)
StepOfLoadedPage == pc = "ready" /\ pc' = "ready"

\* C5: after the load, the recent-selections list (in memory and in storage)
\* changes only in a step that is a successful artifact-generation action; an
\* action whose side effect fails does not add the token.
C5_RecentsOnlyOnSuccess ==
  [][ (StepOfLoadedPage
        /\ (recentDelays' # recentDelays \/ storage'.recents # storage.recents))
      => (artifact'.kind \in ActionKinds /\ artifact'.ok) ]_vars

\* the mount effects have run and the last-selection effect is not pending
EffectsRun == pc = "ready" /\ effectDeps = Some(<<selectedNumber, selectedUnit>>)

\* C6: once the effects of a picker change have run, the persisted last
\* selection is the selected number followed by the selected unit, whether or
\* not an artifact was ever generated; an artifact-generation action never
\* changes the persisted last selection.
C6_LastSelectionPersisted ==
  /\ [](EffectsRun => storage.last = Some(TimeDelayOf(selectedNumber, selectedUnit)))
  /\ [][formState'.submitCount # formState.submitCount => storage'.last = storage.last]_vars

\* C6 witness: the picker was changed to 9 years, no submit was ever made,
\* and the effect has written the selection
C6_Witness ==
  /\ EffectsRun
  /\ picked
  /\ events = 0
  /\ selectedNumber = 9 /\ selectedUnit = years
  /\ storage.last = Some(TimeDelayOf(9, years))

\* C7: if LAST_KEY holds a canonical token t when the page mounts, then after
\* the mount effects and the render they trigger have run (and before the
\* user changes the picker) the selected number and unit and the form's
\* timeDelay are t, and LAST_KEY holds t again.
C7_LastSelectionRestored ==
  (EffectsRun /\ ~picked /\ lastAtMount # None /\ lastAtMount[1] \in CanonicalTokens)
    => /\ TimeDelayOf(selectedNumber, selectedUnit) = lastAtMount[1]
       /\ selectedNumber \in 1..9 /\ selectedUnit \in UnitValues
       /\ form.timeDelay = lastAtMount[1]
       /\ storage.last = lastAtMount

\* C7 witness: "3months" was found at mount and is back in storage
C7_Witness ==
  /\ EffectsRun /\ ~picked
  /\ lastAtMount = Some(TimeDelayOf(3, months))
  /\ storage.last = Some(TimeDelayOf(3, months))
  /\ selectedNumber = 3

\* C8: in every reachable state the token in the form's timeDelay field has
\* a count >= 1 and a unit of weeks, months or years.
C8_TimeDelayCanonical ==
  /\ HasPattern(form.timeDelay)
  /\ parseTimeDelay(form.timeDelay).number >= 1
  /\ parseTimeDelay(form.timeDelay).unit \in UnitValues

\* C9: no artifact-generation action runs with an empty title: whatever is
\* handed to the browser has a non-empty title, and a submit with an empty
\* title hands over nothing and leaves the recents and the storage unchanged.
C9_NoArtifactWithoutTitle ==
  /\ [](artifact.kind # "none" => Len(artifact.title) >= 1)
  /\ [][ (formState'.submitCount = formState.submitCount + 1 /\ form.title = <<>>)
         => /\ artifact' = NoArtifact
            /\ toast' = "none"
            /\ recentDelays' = recentDelays
            /\ storage' = storage
            /\ formState'.titleError ]_vars

\* C9 witness: a submit with an empty title was refused
C9_Witness ==
  /\ formState.submitCount >= 1
  /\ formState.titleError
  /\ form.title = <<>>
  /\ artifact = NoArtifact

Generated == fnCall.op = "generateICS" /\ fnRet # None

\* C10: the document returned by generateICS ends with CRLF: the final
\* record END:VCALENDAR is terminated like every other record.
C10_EndsWithCRLF ==
  Generated =>
    LET doc == fnRet[1]
    IN  /\ Len(doc) >= 2
        /\ doc[Len(doc) - 1] = CR
        /\ doc[Len(doc)] = LF

(***************************************************************************)
(* Reading a document back: the records between CRLFs, the value of the    *)
(* first record with a given name, and the description with backslash, n   *)
(* read as a line feed.                                                    *)
(***************************************************************************)
SetMin(S) == CHOOSE x \in S : \A y \in S : x <= y

\* the positions where a CRLF starts, and where a record starts
CRLFAt(doc) == {i \in 1..(Len(doc) - 1) : doc[i] = CR /\ doc[i + 1] = LF}

RecordStarts(doc) == {1} \cup {i + 2 : i \in CRLFAt(doc)}

RecordEnd(doc, a) ==
  IF \E i \in CRLFAt(doc) : i >= a
  THEN SetMin({i \in CRLFAt(doc) : i >= a}) - 1
  ELSE Len(doc)

RecordAt(doc, a) == SubSeq(doc, a, RecordEnd(doc, a))

HasPrefix(rec, name) == Len(rec) >= Len(name) /\ SubSeq(rec, 1, Len(name)) = name

NamedStarts(doc, name) == {a \in RecordStarts(doc) : HasPrefix(RecordAt(doc, a), name)}

ValueAfter(rec, name) == SubSeq(rec, Len(name) + 1, Len(rec))

\* the value of the first record with the name, if there is one
ValueOf(doc, name) ==
  IF NamedStarts(doc, name) = {} THEN None
  ELSE Some(ValueAfter(RecordAt(doc, SetMin(NamedStarts(doc, name))), name))

RECURSIVE UnescapeNewlines(_)
UnescapeNewlines(s) ==
  IF Len(s) = 0 THEN <<>>
  ELSE IF Len(s) >= 2 /\ s[1] = BACKSLASH /\ s[2] = "n"
       THEN <<LF>> \o UnescapeNewlines(SubSeq(s, 3, Len(s)))
  ELSE <<Head(s)>> \o UnescapeNewlines(Tail(s))

SUMMARY == <<"S", "U", "M", "M", "A", "R", "Y", ":">>
DESCRIPTION == <<"D", "E", "S", "C", "R", "I", "P", "T", "I", "O", "N", ":">>
DTSTART == <<"D", "T", "S", "T", "A", "R", "T", ":">>
DTEND == <<"D", "T", "E", "N", "D", ":">>
DTSTAMP == <<"D", "T", "S", "T", "A", "M", "P", ":">>

EventOfCall == getEventDates(fnCall.timeDelay, fnCall.now, fnCall.tz)

\* C11: reading a generated document back (records split on CRLF; SUMMARY,
\* DESCRIPTION, DTSTART, DTEND; backslash+n in the description read as a
\* newline) recovers exactly the title, the body and the local start and end
\* fields, for every title and body.
C11_RoundTrip ==
  Generated =>
    /\ ValueOf(fnRet[1], SUMMARY) = Some(fnCall.title)
    /\ ValueOf(fnRet[1], DESCRIPTION) # None
    /\ UnescapeNewlines(ValueOf(fnRet[1], DESCRIPTION)[1]) = fnCall.content
    /\ ValueOf(fnRet[1], DTSTART) = Some(formatDate(EventOfCall.startDate, fnCall.tz))
    /\ ValueOf(fnRet[1], DTEND) = Some(formatDate(EventOfCall.endDate, fnCall.tz))

Named == fnCall.op = "downloadName" /\ fnRet # None

NamePrefix == <<"r", "e", "c", "a", "l", "-">>
NameSuffix == <<".", "i", "c", "s">>

\* the part of a download name between the prefix and the suffix
SlugOf(name) == SubSeq(name, Len(NamePrefix) + 1, Len(name) - Len(NameSuffix))

\* the title as the claim reads it: lowercased and cut to 30 characters
CutTitle(title) == SubSeq(toLowerCase(title), 1, Min(Len(title), 30))

\* position i of c is kept: a character of [a-z0-9], or the first character
\* of a run of others that has a character of [a-z0-9] before and after it
KeptAt(c, i) ==
  \/ IsSlugChar(c[i])
  \/ /\ i > 1 /\ IsSlugChar(c[i - 1])
     /\ \E j \in (i + 1)..Len(c) : IsSlugChar(c[j])

KeptIndexes(c) == SelectSeq([i \in 1..Len(c) |-> i], LAMBDA i : KeptAt(c, i))

\* the runs of [a-z0-9] of the cut title with one hyphen between them
ExpectedSlug(title) ==
  [k \in 1..Len(KeptIndexes(CutTitle(title))) |->
     IF IsSlugChar(CutTitle(title)[KeptIndexes(CutTitle(title))[k]])
     THEN CutTitle(title)[KeptIndexes(CutTitle(title))[k]] ELSE "-"]

SlugShape(slug) ==
  /\ Len(slug) <= 30
  /\ \A i \in 1..Len(slug) : slug[i] \in LowerChars \cup DigitChars \cup {"-"}
  /\ \A i \in 1..(Len(slug) - 1) : ~(slug[i] = "-" /\ slug[i + 1] = "-")
  /\ Len(slug) >= 1 => (slug[1] # "-" /\ slug[Len(slug)] # "-")

\* C12: for every non-empty title the download name is "recal-", then the
\* title lowercased, cut to 30 characters, with every run of characters
\* outside [a-z0-9] collapsed to one hyphen and the hyphens at the ends
\* stripped, then ".ics"; that middle part has at most 30 characters, all of
\* [a-z0-9-], no two adjacent hyphens, and no hyphen at either end.
C12_DownloadName ==
  (Named /\ Len(fnCall.title) >= 1) =>
    /\ Len(fnRet[1]) >= Len(NamePrefix) + Len(NameSuffix)
    /\ HasPrefix(fnRet[1], NamePrefix)
    /\ SubSeq(fnRet[1], Len(fnRet[1]) - Len(NameSuffix) + 1, Len(fnRet[1])) = NameSuffix
    /\ SlugOf(fnRet[1]) = ExpectedSlug(fnCall.title)
    /\ SlugShape(SlugOf(fnRet[1]))

\* C12 witness: a title of more than 30 characters whose 30th character is
\* not of [a-z0-9] was named, and the name has a hyphen inside
C12_Witness ==
  /\ Named
  /\ Len(fnCall.title) > 30
  /\ ~IsSlugChar(toLowerCase(fnCall.title)[30])
  /\ \E i \in 2..(Len(SlugOf(fnRet[1])) - 1) : SlugOf(fnRet[1])[i] = "-"

MonthTokens == {TimeDelayOf(numbers[i], months) : i \in 1..Len(numbers)}

\* the local wall-clock reading of the anchor and of the resolved start
AnchorLocal == LocalFields(fnCall.now, fnCall.tz)
StartLocal == LocalFields(fnRet[1].startDate, fnCall.tz)

\* the month reached from the anchor's month by the token's count, counted
\* in months since year 0
TargetMonthIndex == AnchorLocal.year * 12 + (AnchorLocal.month - 1) + parseTimeDelay(fnCall.timeDelay).number
TargetYear == TargetMonthIndex \div 12
TargetMonth == (TargetMonthIndex % 12) + 1

\* C13: resolving a months token of count N lands in the month N after the
\* anchor's, on day min(anchor day, days of that month), at the anchor's time
\* of day: from the last day of a 31-day month one month leads to the last
\* day of the following month, never into the month after it.
C13_MonthClamp ==
  (Resolved /\ fnCall.timeDelay \in MonthTokens) =>
    /\ StartLocal.year = TargetYear
    /\ StartLocal.month = TargetMonth
    /\ StartLocal.date = Min(AnchorLocal.date, DaysInMonth(TargetYear, TargetMonth))
    /\ StartLocal.msOfDay = AnchorLocal.msOfDay

\* C13 witness: one month from January 31 was resolved to February 29
C13_Witness ==
  /\ Resolved
  /\ fnCall.timeDelay = TimeDelayOf(1, months)
  /\ AnchorLocal.month = 1 /\ AnchorLocal.date = 31
  /\ StartLocal.month = 2 /\ StartLocal.date = 29

\* v starts with YYYYMMDDTHHMMSS: eight digits, "T", six digits
IsBasicStamp(v) ==
  /\ Len(v) >= 15
  /\ \A i \in (1..8) \cup (10..15) : IsDigit(v[i])
  /\ v[9] = "T"

\* v spells the year, month, day, hours, minutes and seconds of the reading f
SpellsFields(v, f) ==
  /\ parseInt(SubSeq(v, 1, 4)) = f.year
  /\ parseInt(SubSeq(v, 5, 6)) = f.month
  /\ parseInt(SubSeq(v, 7, 8)) = f.date
  /\ parseInt(SubSeq(v, 10, 11)) = f.hours
  /\ parseInt(SubSeq(v, 12, 13)) = f.minutes
  /\ parseInt(SubSeq(v, 14, 15)) = f.seconds

LocalStampOf(v, t, tz) ==
  /\ Len(v) = 15
  /\ IsBasicStamp(v)
  /\ SpellsFields(v, LocalFields(t, tz))

UtcStampOf(v, t) ==
  /\ Len(v) = 16
  /\ IsBasicStamp(v)
  /\ v[16] = "Z"
  /\ SpellsFields(v, LocalFields(t, 0))

\* C14: in the generated document DTSTART and DTEND are the local wall-clock
\* fields of the start and end instants as 15 zero-padded characters
\* YYYYMMDDTHHMMSS, with no "Z" and no offset; DTSTAMP is the generation
\* instant in UTC as YYYYMMDDTHHMMSS followed by "Z", without milliseconds.
C14_StampFormats ==
  Generated =>
    /\ ValueOf(fnRet[1], DTSTART) # None
    /\ ValueOf(fnRet[1], DTEND) # None
    /\ ValueOf(fnRet[1], DTSTAMP) # None
    /\ LocalStampOf(ValueOf(fnRet[1], DTSTART)[1], EventOfCall.startDate, fnCall.tz)
    /\ LocalStampOf(ValueOf(fnRet[1], DTEND)[1], EventOfCall.endDate, fnCall.tz)
    /\ UtcStampOf(ValueOf(fnRet[1], DTSTAMP)[1], fnCall.now)

\* C14 witness: a document was generated in a zone where the start's local
\* date and hour both differ from its UTC date and hour
C14_Witness ==
  /\ Generated
  /\ fnCall.tz # 0
  /\ LocalFields(EventOfCall.startDate, fnCall.tz).date # LocalFields(EventOfCall.startDate, 0).date
  /\ LocalFields(EventOfCall.startDate, fnCall.tz).hours # LocalFields(EventOfCall.startDate, 0).hours
  /\ LocalFields(fnCall.now, 0).millis # 0

\* C15: in every settled state after mount (after the storage load and any
\* wheel changes and quick-pick clicks) the form's timeDelay is the selected
\* number followed by the selected unit.
C15_TimeDelayIsSelection ==
  Settled => form.timeDelay = TimeDelayOf(selectedNumber, selectedUnit)

\* C15 witness: a stored selection was loaded, a wheel or quick pick was used
\* after it, and the page settled on a selection other than the default
C15_Witness ==
  /\ Settled
  /\ lastAtMount # None
  /\ picked
  /\ <<selectedNumber, selectedUnit>> # <<1, weeks>>
  /\ Some(form.timeDelay) # lastAtMount

\* C16: after every artifact action the list stored under RECENTS_KEY is the
\* in-memory list the action left, and it stays so: in every later state of
\* the page, also after a reload and its load effect, recentDelays is that
\* list.
C16_PersistedRecentsMatch ==
  shownAfterAction # None =>
    /\ storage.recents = Some(JSONstringify(shownAfterAction[1]))
    /\ pc # "mount" => recentDelays = shownAfterAction[1]

\* C16 witness: after an artifact action the page was reloaded and has
\* settled again, showing a list of two or more entries
C16_Witness ==
  /\ shownAfterAction # None
  /\ Settled
  /\ formState.submitCount = 0
  /\ Len(recentDelays) >= 2

====
